---- MODULE Spec2Model ----
(***************************************************************************)
(* Page cache of beyond_rdb: the DiskManager (src/src/disk.rs) and the     *)
(* BufferPoolManager with its clock-sweep BufferPool (src/src/buffer.rs).  *)
(*                                                                         *)
(* A page's 4096 bytes are abstracted to one value of Bytes; ZeroPage is   *)
(* the all-zero page.  The heap file is the sequence of its pages: page p  *)
(* is heap_file[p + 1].  The number of caller handles of a frame is        *)
(* Rc::strong_count(&frame.buffer) - 1.                                    *)
(***************************************************************************)
EXTENDS Integers, Sequences, FiniteSets, TLC

\* ---------------------------------------------------------------- bounds
MaxPoolSize == 2
\* page ids range over 0 .. MaxPageId
MaxPageId == 1
\* page contents range over 0 .. MaxByte
MaxByte == 1
\* pages already in the heap file when the DiskManager is constructed
MaxInitPages == 1
\* cap on usage_count (a u64 in the source)
MaxUsage == 2
\* cap on the caller handles of one buffer
MaxHandles == 2

PageIds == 0 .. MaxPageId
Bytes == 0 .. MaxByte
\* PAGE_SIZE, the bytes of one page
PAGE_SIZE == 4096
\* [0u8; PAGE_SIZE]
ZeroPage == 0
\* Option<BufferId>::None
NoBuffer == -1
\* ghost values: no page id (outside PageIds), no page contents (outside Bytes)
NoPage == 0 - 1
NoData == 0 - 1

VARIABLES
  pool_size,       \* BufferPool::size(): frames.len()
  frames,          \* BufferPool.frames: bid -> [usage_count, page_id, page, is_dirty]
  handles,         \* bid -> number of Rc<Buffer> clones held by callers
  next_victim_id,  \* BufferPool.next_victim_id
  page_table,      \* BufferPoolManager.page_table: HashMap<PageId, BufferId>
  heap_file,       \* DiskManager.heap_file, as its sequence of pages
  next_page_id,    \* DiskManager.next_page_id
  last,            \* ghost: what the last operation did and returned
  written,         \* ghost: pid -> bytes last stored by a caller with dirty set
  bound            \* ghost: bid -> "never" | "bound" | "stale"

vars == <<pool_size, frames, handles, next_victim_id, page_table, heap_file,
          next_page_id, last, written, bound>>

BufferIds == 0 .. (pool_size - 1)

\* ------------------------------------------------------------ DiskManager

\* data_file.metadata()?.len(): the heap file holds whole pages only
FileSize(file) == Len(file) * PAGE_SIZE

\* mutant of DiskManager_new: the counter starts at zero whatever the file holds
DiskManager_new_zero(file) == 0

\* DiskManager::new: the counter is the file length in pages
DiskManager_new(file) == FileSize(file) \div PAGE_SIZE

\* the bytes of one frame's buffer after Buffer::default()
Buffer_default == [page_id |-> 0, page |-> ZeroPage, is_dirty |-> FALSE]

\* Frame::default(): usage_count 0 and a default buffer
Frame_default ==
  [usage_count |-> 0, page_id |-> Buffer_default.page_id,
   page |-> Buffer_default.page, is_dirty |-> Buffer_default.is_dirty]

\* read_page_data succeeds iff the whole page lies inside the file
\* (read_exact fails with UnexpectedEof otherwise)
read_ok(file, page_id) == page_id < Len(file)

\* the bytes read_page_data copies into the buffer
read_page_data(file, page_id) == file[page_id + 1]

\* mutant of write_page_data: the page is written at the end of the file (no seek)
write_page_data_append(file, page_id, data) == Append(file, data)

\* write_page_data: seek to page_id * PAGE_SIZE and write the page; a write
\* past the end of the file leaves a zero-filled hole before it
write_page_data(file, page_id, data) ==
  [i \in 1 .. (IF page_id + 1 > Len(file) THEN page_id + 1 ELSE Len(file)) |->
     IF i = page_id + 1 THEN data
     ELSE IF i <= Len(file) THEN file[i]
     ELSE ZeroPage]

\* mutant of allocate_page: the counter is returned and not incremented
allocate_page_stuck(counter) == [page_id |-> counter, next_page_id |-> counter]

\* allocate_page: returns the counter, which is then incremented
allocate_page(counter) == [page_id |-> counter, next_page_id |-> counter + 1]

\* ------------------------------------------------------------- BufferPool

\* BufferPool::increment_id
increment_id(buffer_id) == (buffer_id + 1) % pool_size

\* mutant of IsUnreferenced: the sweep takes every buffer for unreferenced
IsUnreferenced_always(buffer_id) == TRUE

\* Rc::get_mut(&mut frame.buffer).is_some(): no caller holds a clone
IsUnreferenced(buffer_id) == handles[buffer_id] = 0

\* mutant of SweepExhausted: the sweep gives up one referenced buffer early
SweepExhausted_early(n) == n >= pool_size - 1

\* mutant of SweepExhausted: the sweep gives up after three rounds of
\* referenced buffers
SweepExhausted_late(n) == n >= 3 * pool_size

\* the test that ends a sweep that met only referenced buffers
SweepExhausted(n) == n >= pool_size

\* BufferPool::evict, one loop iteration per unfolding.  usage is the
\* usage_count of every frame, nv the cursor, n num_consecutively_checked_buffers;
\* visits counts the iterations before this one (a ghost).
RECURSIVE evict_loop(_, _, _, _)
evict_loop(usage, nv, n, visits) ==
  IF usage[nv] = 0
  THEN [victim |-> nv, usage |-> usage, next_victim_id |-> nv, visits |-> visits + 1]
  ELSE IF IsUnreferenced(nv)
  THEN evict_loop([usage EXCEPT ![nv] = @ - 1], increment_id(nv), 0, visits + 1)
  ELSE IF SweepExhausted(n + 1)
  THEN [victim |-> NoBuffer, usage |-> usage, next_victim_id |-> nv,
        visits |-> visits + 1]
  ELSE evict_loop(usage, increment_id(nv), n + 1, visits + 1)

evict == evict_loop([b \in BufferIds |-> frames[b].usage_count], next_victim_id, 0, 0)

\* the frames as evict leaves them
FramesAfter(ev) == [b \in BufferIds |-> [frames[b] EXCEPT !.usage_count = ev.usage[b]]]

\* mutant of write_back: the dirty victim is not written to the heap file
write_back_skipped(file, frame) == file

\* mutant of write_back: the victim is written to the heap file whatever its flag
write_back_always(file, frame) == write_page_data(file, frame.page_id, frame.page)

\* lines 140-143 and 166-169: a dirty victim is written to the heap file under
\* the page id it holds, before anything else is done with the frame
write_back(file, frame) ==
  IF frame.is_dirty THEN write_page_data(file, frame.page_id, frame.page) ELSE file

\* the page id write_back writes, if any
Wrote(frame) == IF frame.is_dirty THEN frame.page_id ELSE NoPage

\* the page id of a victim whose bytes are overwritten without having been
\* written back: a frame that holds a page (bd = "bound"), is not dirty, and
\* whose bytes differ from the page in the heap file
Lost(file, frame, bd) ==
  IF /\ bd = "bound"
     /\ ~frame.is_dirty
     /\ read_ok(file, frame.page_id)
     /\ frame.page # read_page_data(file, frame.page_id)
  THEN frame.page_id
  ELSE NoPage

\* mutant of rebound_frame: the reused frame starts with usage_count 0
rebound_frame_unused(page_id, page, is_dirty) ==
  [usage_count |-> 0, page_id |-> page_id, page |-> page, is_dirty |-> is_dirty]

\* mutant of rebound_frame: the reused frame is never marked dirty
rebound_frame_clean(page_id, page, is_dirty) ==
  [usage_count |-> 1, page_id |-> page_id, page |-> page, is_dirty |-> FALSE]

\* lines 145-149 and 171-174: the victim frame once it holds its new page
rebound_frame(page_id, page, is_dirty) ==
  [usage_count |-> 1, page_id |-> page_id, page |-> page, is_dirty |-> is_dirty]

\* -------------------------------------------------------------- page table

\* HashMap::remove
pt_remove(pt, k) == [x \in (DOMAIN pt) \ {k} |-> pt[x]]

\* HashMap::insert
pt_insert(pt, k, v) == [x \in (DOMAIN pt) \cup {k} |-> IF x = k THEN v ELSE pt[x]]

\* ------------------------------------------------------------------ ghosts

RECURSIVE SumHandles(_)
SumHandles(S) ==
  IF S = {} THEN 0
  ELSE LET b == CHOOSE x \in S : TRUE IN handles[b] + SumHandles(S \ {b})

\* caller handles outstanding, over all frames
TotalHandles == SumHandles(BufferIds)

\* frames with at least one caller handle
Pinned == {b \in BufferIds : handles[b] > 0}

Halted == last.res = "panic"

\* the ghost record of an operation of the pool: its name, its result, the page
\* id asked for (fetch_page) or allocated (create_page), the frame of the
\* handle it returned, the page id it wrote back to the heap file, and the page
\* id whose unwritten bytes it discarded (see Lost)
LastOf(op, page_id, res, handle, wrote) ==
  [op |-> op, page_id |-> page_id, res |-> res, handle |-> handle, wrote |-> wrote,
   lost |-> NoPage]

\* the ghost record after a caller's own step (a write through a handle, a drop)
CallerLast == LastOf("caller", NoPage, "ok", NoBuffer, NoPage)

\* ------------------------------------------------------------------- Init

\* BufferPool::new(pool_size), BufferPoolManager::new and DiskManager::new on
\* a file of 0 .. MaxInitPages pages
Init ==
  /\ pool_size \in 1 .. MaxPoolSize
  /\ frames = [b \in 0 .. (pool_size - 1) |-> Frame_default]
  /\ handles = [b \in 0 .. (pool_size - 1) |-> 0]
  /\ next_victim_id = 0
  /\ page_table = [x \in {} |-> 0]
  /\ \E n \in 0 .. MaxInitPages : heap_file \in [1 .. n -> Bytes]
  /\ next_page_id = DiskManager_new(heap_file)
  /\ last = LastOf("new", NoPage, "ok", NoBuffer, NoPage)
  /\ written = [p \in PageIds |-> NoData]
  /\ bound = [b \in 0 .. (pool_size - 1) |-> "never"]

\* ---------------------------------------------------------------- actions

\* the next state of every variable
Becomes(fr, h, nv, pt, hf, npi, l, w, bd) ==
  /\ frames' = fr
  /\ handles' = h
  /\ next_victim_id' = nv
  /\ page_table' = pt
  /\ heap_file' = hf
  /\ next_page_id' = npi
  /\ last' = l
  /\ written' = w
  /\ bound' = bd
  /\ pool_size' = pool_size

\* fetch_page, lines 123-128: the page table holds page_id
fetch_hit(page_id) ==
  LET buffer_id == page_table[page_id] IN
  /\ frames[buffer_id].usage_count < MaxUsage
  /\ handles[buffer_id] < MaxHandles
  /\ Becomes([frames EXCEPT ![buffer_id].usage_count = @ + 1],
             [handles EXCEPT ![buffer_id] = @ + 1],
             next_victim_id, page_table, heap_file, next_page_id,
             LastOf("fetch", page_id, "ok", buffer_id, NoPage),
             written, bound)

\* fetch_page, lines 130-156: the page table does not hold page_id.
\* fault = "write" makes write_page_data fail at its seek (line 59), which no
\* state of the program decides; read_page_data fails when the page lies past
\* the end of the file.
fetch_miss(page_id, fault) ==
  LET ev == evict
      f1 == FramesAfter(ev)
      v == ev.victim
  IN
  IF v = NoBuffer
  THEN \* line 132
       Becomes(f1, handles, ev.next_victim_id, page_table, heap_file, next_page_id,
               LastOf("fetch", page_id, "NoFreeBuffer", NoBuffer, NoPage),
               written, bound)
  ELSE IF handles[v] > 0
  THEN \* line 138: Rc::get_mut(..).unwrap() on a referenced buffer panics
       Becomes(f1, handles, ev.next_victim_id, page_table, heap_file, next_page_id,
               LastOf("fetch", page_id, "panic", NoBuffer, NoPage),
               written, bound)
  ELSE
  LET evict_page_id == f1[v].page_id IN
  IF f1[v].is_dirty /\ fault = "write"
  THEN \* line 142, the error of write_page_data propagates
       Becomes(f1, handles, ev.next_victim_id, page_table, heap_file, next_page_id,
               LastOf("fetch", page_id, "Io", NoBuffer, NoPage),
               written, bound)
  ELSE
  LET heap1 == write_back(heap_file, f1[v]) IN
  IF ~read_ok(heap1, page_id)
  THEN \* line 148, the error of read_page_data propagates: lines 145-146 have
       \* run, the 0 bytes read leave the page as it was
       Becomes([f1 EXCEPT ![v].page_id = page_id, ![v].is_dirty = FALSE],
               handles, ev.next_victim_id, page_table, heap1, next_page_id,
               LastOf("fetch", page_id, "Io", NoBuffer, Wrote(f1[v])),
               written,
               [bound EXCEPT ![v] = IF @ = "never" THEN "never" ELSE "stale"])
  ELSE \* lines 145-156
       Becomes([f1 EXCEPT ![v] = rebound_frame(page_id, read_page_data(heap1, page_id),
                                                FALSE)],
               [handles EXCEPT ![v] = @ + 1],
               ev.next_victim_id,
               pt_insert(pt_remove(page_table, evict_page_id), page_id, v),
               heap1, next_page_id,
               [LastOf("fetch", page_id, "ok", v, Wrote(f1[v]))
                  EXCEPT !.lost = Lost(heap_file, f1[v], bound[v])],
               written,
               [bound EXCEPT ![v] = "bound"])

\* BufferPoolManager::fetch_page
fetch_page(page_id, fault) ==
  /\ ~Halted
  /\ IF page_id \in DOMAIN page_table
     THEN fetch_hit(page_id)
     ELSE fetch_miss(page_id, fault)

\* BufferPoolManager::create_page
create_page(fault) ==
  LET ev == evict
      f1 == FramesAfter(ev)
      buffer_id == ev.victim
  IN
  /\ ~Halted
  /\ IF buffer_id = NoBuffer
     THEN \* line 161
          Becomes(f1, handles, ev.next_victim_id, page_table, heap_file, next_page_id,
                  LastOf("create", NoPage, "NoFreeBuffer", NoBuffer, NoPage),
                  written, bound)
     ELSE IF handles[buffer_id] > 0
     THEN \* line 165: Rc::get_mut(..).unwrap() on a referenced buffer panics
          Becomes(f1, handles, ev.next_victim_id, page_table, heap_file, next_page_id,
                  LastOf("create", NoPage, "panic", NoBuffer, NoPage),
                  written, bound)
     ELSE
     LET evict_page_id == f1[buffer_id].page_id IN
     IF f1[buffer_id].is_dirty /\ fault = "write"
     THEN \* line 168, the error of write_page_data propagates
          Becomes(f1, handles, ev.next_victim_id, page_table, heap_file, next_page_id,
                  LastOf("create", NoPage, "Io", NoBuffer, NoPage),
                  written, bound)
     ELSE
     LET heap1 == write_back(heap_file, f1[buffer_id])
         alloc == allocate_page(next_page_id)
     IN \* lines 170-180
     /\ next_page_id <= MaxPageId
     /\ Becomes([f1 EXCEPT ![buffer_id] =
                    rebound_frame(alloc.page_id, Buffer_default.page, TRUE)],
                [handles EXCEPT ![buffer_id] = @ + 1],
                ev.next_victim_id,
                pt_insert(pt_remove(page_table, evict_page_id), alloc.page_id, buffer_id),
                heap1, alloc.next_page_id,
                [LastOf("create", alloc.page_id, "ok", buffer_id, Wrote(f1[buffer_id]))
                   EXCEPT !.lost = Lost(heap_file, f1[buffer_id], bound[buffer_id])],
                written,
                [bound EXCEPT ![buffer_id] = "bound"])

\* a caller that holds a handle of frame buffer_id stores data in the page
\* (buffer.page.borrow_mut()) and, with mark, sets buffer.is_dirty
write_through_handle(buffer_id, data, mark) ==
  /\ ~Halted
  /\ handles[buffer_id] > 0
  /\ Becomes([frames EXCEPT ![buffer_id].page = data,
                            ![buffer_id].is_dirty = (@ \/ mark)],
             handles, next_victim_id, page_table, heap_file, next_page_id,
             CallerLast,
             [written EXCEPT ![frames[buffer_id].page_id] =
                                IF mark THEN data ELSE NoData],
             bound)

\* a caller drops one handle (one Rc<Buffer> clone) of frame buffer_id
drop_handle(buffer_id) ==
  /\ ~Halted
  /\ handles[buffer_id] > 0
  /\ Becomes(frames, [handles EXCEPT ![buffer_id] = @ - 1],
             next_victim_id, page_table, heap_file, next_page_id,
             CallerLast, written, bound)

\* the I/O failures the environment may inject
Faults == {"none", "write"}

Next ==
  \/ \E page_id \in PageIds, fault \in Faults :
        fetch_page(page_id, fault)
  \/ \E fault \in Faults : create_page(fault)
  \/ \E buffer_id \in BufferIds, data \in Bytes, mark \in BOOLEAN :
        write_through_handle(buffer_id, data, mark)
  \/ \E buffer_id \in BufferIds : drop_handle(buffer_id)

Spec == Init /\ [][Next]_vars

\* ------------------------------------------- the DiskManager used directly

\* the ghost record of a call on the DiskManager: data is what read_page_data
\* copied into the caller's buffer
DiskLast(op, page_id, res, data) ==
  [op |-> op, page_id |-> page_id, res |-> res, data |-> data]

\* the pool is not used: only the DiskManager's fields and the ghosts change
DiskBecomes(hf, npi, l, w) ==
  /\ heap_file' = hf
  /\ next_page_id' = npi
  /\ last' = l
  /\ written' = w
  /\ UNCHANGED <<pool_size, frames, handles, next_victim_id, page_table, bound>>

\* DiskManager::new on a file of 0 .. MaxInitPages pages, with a pool nobody uses
InitDisk ==
  /\ pool_size = 1
  /\ frames = [b \in {0} |-> Frame_default]
  /\ handles = [b \in {0} |-> 0]
  /\ next_victim_id = 0
  /\ page_table = [x \in {} |-> 0]
  /\ \E n \in 0 .. MaxInitPages : heap_file \in [1 .. n -> Bytes]
  /\ next_page_id = DiskManager_new(heap_file)
  /\ last = DiskLast("new", NoPage, "ok", NoData)
  /\ written = [p \in PageIds |-> NoData]
  /\ bound = [b \in {0} |-> "never"]

\* DiskManager::allocate_page
disk_allocate_page ==
  LET alloc == allocate_page(next_page_id) IN
  /\ next_page_id <= MaxPageId
  /\ DiskBecomes(heap_file, alloc.next_page_id,
                 DiskLast("allocate", alloc.page_id, "ok", NoData), written)

\* DiskManager::write_page_data; written records the last bytes stored in a page
disk_write_page_data(page_id, data, fault) ==
  IF fault = "write"
  THEN DiskBecomes(heap_file, next_page_id,
                   DiskLast("write", page_id, "Io", NoData), written)
  ELSE DiskBecomes(write_page_data(heap_file, page_id, data), next_page_id,
                   DiskLast("write", page_id, "ok", NoData),
                   [written EXCEPT ![page_id] = data])

\* DiskManager::read_page_data into a caller's buffer
disk_read_page_data(page_id) ==
  IF read_ok(heap_file, page_id)
  THEN DiskBecomes(heap_file, next_page_id,
                   DiskLast("read", page_id, "ok", read_page_data(heap_file, page_id)),
                   written)
  ELSE DiskBecomes(heap_file, next_page_id,
                   DiskLast("read", page_id, "Io", NoData), written)

\* drop(disk) and DiskManager::open on the same path: the file is kept, the
\* counter is set again from its length
disk_reopen ==
  LET counter == DiskManager_new(heap_file) IN
  /\ FileSize(heap_file) % PAGE_SIZE = 0
  /\ DiskBecomes(heap_file, counter, DiskLast("open", NoPage, "ok", NoData), written)

NextDisk ==
  \/ disk_allocate_page
  \/ \E page_id \in PageIds, data \in Bytes, fault \in Faults :
        disk_write_page_data(page_id, data, fault)
  \/ \E page_id \in PageIds : disk_read_page_data(page_id)
  \/ disk_reopen

SpecDisk == InitDisk /\ [][NextDisk]_vars

\* --------------------------------- a pool one frame larger, read-only callers

\* the pool size of the counter-decay scenario
DecayPoolSize == MaxPoolSize + 1

\* one page more than the pool has frames, all of them in the heap file
DecayPageIds == 0 .. DecayPoolSize

\* BufferPoolManager::new(disk, DecayPoolSize) on a heap file that holds every
\* page of DecayPageIds
InitDecay ==
  /\ pool_size = DecayPoolSize
  /\ frames = [b \in 0 .. (DecayPoolSize - 1) |-> Frame_default]
  /\ handles = [b \in 0 .. (DecayPoolSize - 1) |-> 0]
  /\ next_victim_id = 0
  /\ page_table = [x \in {} |-> 0]
  /\ \E byte \in Bytes : heap_file = [i \in 1 .. (DecayPoolSize + 1) |-> byte]
  /\ next_page_id = DiskManager_new(heap_file)
  /\ last = LastOf("new", NoPage, "ok", NoBuffer, NoPage)
  /\ written = [p \in PageIds |-> NoData]
  /\ bound = [b \in 0 .. (DecayPoolSize - 1) |-> "never"]

\* callers that fetch pages and drop handles, and never write
NextDecay ==
  \/ \E page_id \in DecayPageIds : fetch_page(page_id, "none")
  \/ \E buffer_id \in BufferIds : drop_handle(buffer_id)

SpecDecay == InitDecay /\ [][NextDecay]_vars

\* ------------------------------------------------------------------ claims

\* the operations of the pool
PoolOps == {"fetch", "create"}

\* this step is a call of fetch_page or create_page that ran the clock sweep
SweepStep ==
  \/ last'.op = "create"
  \/ last'.op = "fetch" /\ last'.page_id \notin DOMAIN page_table

\* the page-table keys that map to frame b
KeysOf(b) == {p \in DOMAIN page_table : page_table[p] = b}

\* C1: round trip through eviction.  When fetch_page(p) succeeds on a miss, no
\* handle of a buffer holding p is outstanding and a caller last stored bytes b
\* in p with dirty set, the returned buffer holds b.
C1_RoundTrip ==
  [][(/\ last'.op = "fetch" /\ last'.res = "ok"
      /\ last'.page_id \notin DOMAIN page_table
      /\ written[last'.page_id] # NoData
      /\ \A b \in BufferIds : frames[b].page_id = last'.page_id => handles[b] = 0)
     => frames'[last'.handle].page = written[last'.page_id]]_vars

\* C2: every successful fetch_page(p) returns a handle of a buffer whose
\* page_id is p.
C2_FetchReturnsPage ==
  (last.op = "fetch" /\ last.res = "ok") => frames[last.handle].page_id = last.page_id

\* C3: eviction safety.  In every call of fetch_page or create_page the clock
\* sweep returns no frame that has an outstanding handle, and the page_id,
\* bytes and dirty flag of every frame with an outstanding handle stay as they are.
C3_EvictionSafety ==
  [][last'.op \in PoolOps =>
       /\ (SweepStep /\ evict.victim # NoBuffer) => handles[evict.victim] = 0
       /\ \A b \in BufferIds :
            handles[b] > 0 =>
              /\ frames'[b].page_id = frames[b].page_id
              /\ frames'[b].page = frames[b].page
              /\ frames'[b].is_dirty = frames[b].is_dirty]_vars

\* C3 witness: create_page succeeded while another frame had an outstanding handle
C3_Witness ==
  /\ last.op = "create" /\ last.res = "ok"
  /\ \E b \in BufferIds : b # last.handle /\ handles[b] > 0

\* C4: a call that does not end in success or an I/O error (NoFreeBuffer) is
\* made only when every frame has an outstanding handle, hence never with
\* fewer than pool_size handles outstanding.
C4_NoFreeBufferOnlyWhenAllPinned ==
  (last.op \in PoolOps /\ last.res \notin {"ok", "Io"}) =>
     /\ last.res = "NoFreeBuffer"
     /\ Pinned = BufferIds
     /\ TotalHandles >= pool_size

\* C4 witness: with pool_size - 1 handles outstanding, on pool_size - 1 frames,
\* create_page succeeded in a pool of more than one frame
C4_Witness ==
  /\ pool_size > 1
  /\ last.op = "create" /\ last.res = "ok"
  /\ TotalHandles = pool_size
  /\ Pinned = BufferIds

\* C5 as claimed: with pool_size handles outstanding, fetch_page and
\* create_page fail with NoFreeBuffer.
C5_Original ==
  [][(last'.op \in PoolOps /\ TotalHandles = pool_size)
       => last'.res = "NoFreeBuffer"]_vars

\* C5 as amended: when every frame has an outstanding handle, create_page and
\* a fetch_page of a page the page table does not hold fail with NoFreeBuffer.
C5_AllPinnedFails ==
  [][(SweepStep /\ Pinned = BufferIds) => last'.res = "NoFreeBuffer"]_vars

\* C5 witness: fetch_page failed with NoFreeBuffer, every frame having a handle
C5_Witness ==
  /\ last.op = "fetch" /\ last.res = "NoFreeBuffer"
  /\ Pinned = BufferIds

\* C6: invariant I1, every page-table entry (pid, bid) has frame bid hold pid.
C6_I1 ==
  \A p \in DOMAIN page_table : frames[page_table[p]].page_id = p

\* C7: invariant I2, no two page-table entries map to the same frame, so the
\* page table has at most pool_size entries.
C7_I2 ==
  /\ \A p, q \in DOMAIN page_table : p # q => page_table[p] # page_table[q]
  /\ Cardinality(DOMAIN page_table) <= pool_size

\* C8: page-table completeness.  A frame bound by a successful fetch_page or
\* create_page and not repurposed since has exactly one page-table entry, keyed
\* by the page id it holds; a frame that never held a page has none.
C8_Completeness ==
  \A b \in BufferIds :
     /\ bound[b] = "bound" => KeysOf(b) = {frames[b].page_id}
     /\ bound[b] = "never" => KeysOf(b) = {}

\* the victim of this step's sweep was dirty and the step went on to reuse it
DirtyVictimReused ==
  /\ SweepStep
  /\ evict.victim # NoBuffer
  /\ handles[evict.victim] = 0
  /\ frames[evict.victim].is_dirty
  /\ \/ last'.res = "ok"
     \/ frames'[evict.victim].page_id # frames[evict.victim].page_id
     \/ frames'[evict.victim].is_dirty # frames[evict.victim].is_dirty

\* C9: durability at eviction.  When a dirty victim is reused, the heap file
\* then holds the victim's prior bytes at its prior page id; the write precedes
\* the read-in (a fetch of that same page id returns those bytes) and precedes
\* every page-table change (the file holds them also when the read-in fails
\* and the page table is left as it was).
C9_DurabilityAtEviction ==
  [][DirtyVictimReused =>
       LET v == evict.victim
           pid == frames[v].page_id
       IN /\ pid < Len(heap_file')
          /\ heap_file'[pid + 1] = frames[v].page
          /\ last'.wrote = pid
          /\ (last'.op = "fetch" /\ last'.res = "ok" /\ last'.page_id = pid)
                => frames'[v].page = frames[v].page
          /\ last'.res # "ok" => page_table' = page_table]_vars

\* C9 witness: an operation wrote a victim back and the file holds the page
C9_Witness ==
  /\ last.op \in PoolOps /\ last.res = "ok"
  /\ last.wrote # NoPage
  /\ last.wrote < Len(heap_file)

\* C10: a failed fetch_page or create_page leaves the page table and the
\* next-page-id counter as they were; the counter advances by exactly one in
\* each successful create_page and in no other step.
C10_FailureLeavesTableAndCounter ==
  [][/\ (last'.op \in PoolOps /\ last'.res # "ok")
          => (page_table' = page_table /\ next_page_id' = next_page_id)
     /\ next_page_id' =
          IF last'.op = "create" /\ last'.res = "ok"
          THEN next_page_id + 1 ELSE next_page_id]_vars

\* C10 witness: create_page failed with an I/O error after pages were allocated
C10_Witness ==
  /\ last.op = "create" /\ last.res = "Io"
  /\ next_page_id > 0
  /\ DOMAIN page_table # {}

\* C11: a successful create_page returns a buffer with the page id the counter
\* held, which no earlier create_page returned (the counter never decreases and
\* ends just above the id), with all-zero bytes and the dirty flag set; its
\* frame has usage_count 1 and the page table maps the new id to that frame.
C11_CreateReturnsFreshZeroDirty ==
  [][/\ next_page_id' >= next_page_id
     /\ (last'.op = "create" /\ last'.res = "ok") =>
          /\ last'.page_id = next_page_id
          /\ next_page_id' = last'.page_id + 1
          /\ frames'[last'.handle] =
               [usage_count |-> 1, page_id |-> last'.page_id,
                page |-> ZeroPage, is_dirty |-> TRUE]
          /\ last'.page_id \in DOMAIN page_table'
          /\ page_table'[last'.page_id] = last'.handle
          /\ handles'[last'.handle] = 1]_vars

\* C11 witness: create_page succeeded for the second time on this pool
C11_Witness ==
  /\ last.op = "create" /\ last.res = "ok"
  /\ last.page_id > 0
  /\ frames[last.handle].is_dirty
  /\ Cardinality(DOMAIN page_table) > 1

\* C12: disk round trip.  read_page_data(p) of a page that was written succeeds
\* and returns the bytes of the last write_page_data(p, .), whatever calls of
\* allocate_page, write_page_data and reopenings lie in between; a
\* write_page_data(p, .) leaves every other page of the file as it was.
C12_DiskRoundTrip ==
  [][/\ (last'.op = "read" /\ written[last'.page_id] # NoData) =>
          (last'.res = "ok" /\ last'.data = written[last'.page_id])
     /\ last'.op = "write" =>
          \A q \in PageIds :
             (q # last'.page_id /\ q < Len(heap_file)) =>
                (q < Len(heap_file') /\ heap_file'[q + 1] = heap_file[q + 1])
     /\ last'.op = "open" => heap_file' = heap_file]_vars

\* C12 witness: after two pages were written with different bytes, page 0 is
\* read back by a manager whose counter equals the length of the file
C12_Witness ==
  /\ last.op = "read" /\ last.res = "ok"
  /\ written[0] # NoData /\ written[1] # NoData /\ written[0] # written[1]
  /\ last.data = written[last.page_id]
  /\ next_page_id = Len(heap_file)
  /\ last.page_id = 0

\* C18: page-id allocation.  A DiskManager opened on a file starts its counter
\* at the file's length in pages (0 for an empty file); allocate_page returns
\* the counter and increments it by one, so the ids of one manager are
\* consecutive and strictly increasing, and it does not touch the file.
C18_AllocationDenseMonotonic ==
  [][/\ last.op = "new" => next_page_id = FileSize(heap_file) \div PAGE_SIZE
     /\ (last.op = "new" /\ Len(heap_file) = 0) => next_page_id = 0
     /\ last'.op = "open" => next_page_id' = FileSize(heap_file') \div PAGE_SIZE
     /\ last'.op = "allocate" =>
          /\ last'.page_id = next_page_id
          /\ next_page_id' = next_page_id + 1
          /\ heap_file' = heap_file
     /\ last'.op \notin {"open", "allocate"} => next_page_id' = next_page_id]_vars

\* C18 witness: a manager opened on an empty file has allocated ids 0 and 1
\* and written nothing
C18_Witness ==
  /\ last.op = "allocate"
  /\ last.page_id > 0
  /\ last.page_id = next_page_id - 1
  /\ Len(heap_file) = 0

\* C13: hit path.  When the page table maps p to frame bid, fetch_page(p)
\* succeeds with a handle on frame bid, which is the frame of every other
\* outstanding handle obtained for p; it adds exactly 1 to frame bid's
\* usage_count and one handle to it, and changes nothing else: not the heap
\* file (no read, no write), not the cursor or another frame's usage_count (no
\* sweep), not the page table, not the page-id counter.
C13_HitPath ==
  [][(last'.op = "fetch" /\ last'.page_id \in DOMAIN page_table) =>
        LET bid == page_table[last'.page_id] IN
        /\ last'.res = "ok" /\ last'.handle = bid
        /\ \A b \in BufferIds :
              (handles[b] > 0 /\ frames[b].page_id = last'.page_id) => b = bid
        /\ frames' = [frames EXCEPT ![bid].usage_count = @ + 1]
        /\ handles' = [handles EXCEPT ![bid] = @ + 1]
        /\ last'.wrote = NoPage
        /\ heap_file' = heap_file
        /\ next_victim_id' = next_victim_id
        /\ page_table' = page_table
        /\ next_page_id' = next_page_id]_vars

\* C14: dirty tracking is caller-driven.  The heap file changes only when a
\* frame whose is_dirty is set is reused: a write through a handle changes no
\* byte of it, and reusing a frame whose is_dirty is false writes nothing, so
\* the bytes such a frame held and the heap file does not (last'.lost) are
\* discarded; a fetch_page that misses returns the bytes the heap file holds.
C14_CallerDrivenDirty ==
  [][/\ heap_file' # heap_file =>
          /\ last'.op \in {"fetch", "create"}
          /\ last'.wrote # NoPage
          /\ \E b \in BufferIds :
                frames[b].is_dirty /\ frames[b].page_id = last'.wrote
     /\ last'.lost # NoPage =>
          /\ heap_file' = heap_file
          /\ last'.wrote = NoPage
          /\ \E b \in BufferIds :
                /\ ~frames[b].is_dirty
                /\ frames[b].page_id = last'.lost
                /\ frames[b].page # heap_file'[last'.lost + 1]
                /\ frames'[b].page_id = last'.page_id
     /\ (last'.op = "fetch" /\ last'.res = "ok"
           /\ last'.page_id \notin DOMAIN page_table) =>
          frames'[last'.handle].page = heap_file'[last'.page_id + 1]]_vars

\* C14 witness: a fetch_page that missed reused a frame in which another page
\* had bytes the heap file does not hold, with is_dirty false; nothing was
\* written, and the handle returned shows the bytes of the heap file
C14_Witness ==
  /\ last.op = "fetch" /\ last.res = "ok"
  /\ last.lost # NoPage /\ last.lost # last.page_id
  /\ last.wrote = NoPage
  /\ frames[last.handle].page = heap_file[last.page_id + 1]

\* C15: a fetch_page that misses, or a create_page, that reuses frame v removes
\* from the page table only an entry that pointed at v: every entry of another
\* frame is kept, except that the entry of the page brought in now points at
\* v.  In particular reusing a frame that never held a page (its page_id is
\* the default 0) keeps the entry of a page 0 that is in another frame.
C15_RemovesOnlyVictimEntry ==
  [][(last'.op \in {"fetch", "create"} /\ last'.res = "ok") =>
        \A q \in DOMAIN page_table :
           (page_table[q] # last'.handle /\ q # last'.page_id) =>
              (q \in DOMAIN page_table' /\ page_table'[q] = page_table[q])]_vars

\* the state after every frame of the pool was filled by a fetch_page whose
\* handle was held (usage_count 1 each) and all handles were released
AllCountersOneNoHandles ==
  \A b \in BufferIds :
     handles[b] = 0 /\ frames[b].usage_count = 1 /\ bound[b] = "bound"

\* C16: counter decay.  From AllCountersOneNoHandles the next fetch_page that
\* misses brings every counter to zero, takes the frame at the cursor as
\* victim and leaves the cursor on it; the page of that frame leaves the page
\* table and the pages of all other frames stay in it, each mapped to its
\* frame (they remain hits).
C16_CounterDecay ==
  [][(/\ AllCountersOneNoHandles
      /\ last'.op = "fetch"
      /\ last'.page_id \notin DOMAIN page_table) =>
        /\ last'.res = "ok"
        /\ last'.handle = next_victim_id
        /\ next_victim_id' = next_victim_id
        /\ frames'[last'.handle].usage_count = 1
        /\ \A b \in BufferIds \ {last'.handle} :
              /\ frames'[b] = [frames[b] EXCEPT !.usage_count = 0]
              /\ frames[b].page_id \in DOMAIN page_table'
              /\ page_table'[frames[b].page_id] = b
        /\ frames[last'.handle].page_id \notin DOMAIN page_table']_vars

\* C16 without its last part: what the sweep does to the counters, the cursor
\* and the frames
C16_SweepPart ==
  [][(/\ AllCountersOneNoHandles
      /\ last'.op = "fetch"
      /\ last'.page_id \notin DOMAIN page_table) =>
        /\ last'.res = "ok"
        /\ last'.handle = next_victim_id
        /\ next_victim_id' = next_victim_id
        /\ frames'[last'.handle].usage_count = 1
        /\ \A b \in BufferIds \ {last'.handle} :
              frames'[b] = [frames[b] EXCEPT !.usage_count = 0]]_vars

RECURSIVE SumUsage(_)
SumUsage(S) ==
  IF S = {} THEN 0
  ELSE LET b == CHOOSE x \in S : TRUE IN frames[b].usage_count + SumUsage(S \ {b})

\* C17: the clock sweep terminates.  In every state evict returns a frame or
\* no-victim after at most pool_size * (sum of the counters + 1) visits; a
\* fetch_page or create_page that fails with NoFreeBuffer ran a sweep of at
\* most 2 * pool_size visits and left every usage_count and the cursor as
\* they were.
C17_SweepTerminates ==
  [][/\ evict.victim \in BufferIds \cup {NoBuffer}
     /\ evict.visits <= pool_size * (SumUsage(BufferIds) + 1)
     /\ evict.victim = NoBuffer =>
          /\ evict.visits <= 2 * pool_size
          /\ \A b \in BufferIds : evict.usage[b] = frames[b].usage_count
     /\ last'.res = "NoFreeBuffer" =>
          /\ evict.victim = NoBuffer
          /\ \A b \in BufferIds : frames'[b].usage_count = frames[b].usage_count]_vars

\* C17 witness: a sweep over a pool in which every frame is referenced, with
\* counters above zero, has just returned no-victim
C17_Witness ==
  /\ last.res = "NoFreeBuffer"
  /\ pool_size = MaxPoolSize
  /\ \A b \in BufferIds : handles[b] > 0 /\ frames[b].usage_count > 0
  /\ \E b \in BufferIds : frames[b].usage_count = MaxUsage

\* C19: single residency.  No two frames that a successful fetch_page or
\* create_page filled, and that were not reused since, hold the same page id;
\* so two outstanding handles with the same page_id are handles of one frame.
C19_SingleResidency ==
  \A b1, b2 \in BufferIds :
     (/\ bound[b1] = "bound" /\ bound[b2] = "bound"
      /\ frames[b1].page_id = frames[b2].page_id) => b1 = b2

\* C20: pin implies positive usage.  Every frame with an outstanding handle
\* has usage_count >= 1, the frame evict returns has no handle, and no
\* fetch_page or create_page panics at Rc::get_mut(..).unwrap().
C20_PinImpliesPositiveUsage ==
  /\ \A b \in BufferIds : handles[b] > 0 => frames[b].usage_count >= 1
  /\ evict.victim # NoBuffer => handles[evict.victim] = 0
  /\ last.res # "panic"

\* C20 witness: a fetch_page or create_page has just reused the frame at the
\* cursor while another frame has a handle and the lowest counter a frame with
\* a handle can have
C20_Witness ==
  /\ last.op \in {"fetch", "create"} /\ last.res = "ok"
  /\ \E b \in BufferIds \ {last.handle} :
        handles[b] > 0 /\ frames[b].usage_count = 1
  /\ next_victim_id = last.handle
  /\ next_victim_id # 0

====
